---------------------------- MODULE Spec2Model ----------------------------
(***************************************************************************)
(* Billing tracking endpoint (app/api/billing/tracking/route.ts) and the   *)
(* WhatsApp delivery helpers (lib/msg-whatsapp.ts).                         *)
(*                                                                         *)
(* Text values (tracking numbers, phones, ids) are sequences of one-char   *)
(* strings, so that prefix tests, digit stripping and parseInt are         *)
(* computed the way the code computes them.                                *)
(*                                                                         *)
(* Four specifications share the module:                                   *)
(*   SpecCourier  determineShippingPartner / getTrackingUrl on one input   *)
(*   SpecRetry    sendBillingWhatsApp and sendBillingWhatsAppWithRetry     *)
(*   Spec         the POST / GET tracking handlers over a bill table       *)
(*   SpecFormat   formatBillingMessage on one input                        *)
(***************************************************************************)
EXTENDS Integers, Sequences, FiniteSets, TLC

VARIABLES
    \* ---- SpecCourier
    cPc,          \* "start" | "classified" | "done"
    cIn,          \* the tracking number handed to determineShippingPartner
    cPartner,     \* its result
    cUrl,         \* getTrackingUrl(cPartner, cIn)
    cRegex10,     \* whether /^10(?!000)/ matches cIn
    \* ---- SpecRetry
    rMode,        \* "direct": sendBillingWhatsApp is called, "retry": the wrapper
    rPhone,       \* params.phone
    maxRetries,   \* the wrapper's second argument
    wPc,          \* "start" | "loop" | "backoff" | "returned" | "thrown"
    attempt,      \* the loop variable
    lastError,    \* the wrapper's lastError (None: undefined)
    rHistory,     \* the completion of every sendBillingWhatsApp call so far
    rLastEnv,     \* what the collaborators did during the latest call
    rWaits,       \* the setTimeout delays awaited so far: [after, ms]
    wResult,      \* the value returned to the caller
    wTerminal,    \* the Error thrown to the caller
    httpPosts,    \* the bodies POSTed to the provider so far
    \* ---- Spec
    bills,        \* the transactionRecord table, by primary key
    req,          \* the request each handler task is serving
    issued,       \* requests that have arrived so far
    updates,      \* the update calls executed so far, in order
    sentLog,      \* the sendOrderStatusWhatsApp calls made so far, in order
    \* ---- SpecFormat
    fPc,          \* "start" | "composed"
    fIn,          \* the argument of formatBillingMessage
    fEnv,         \* what the address splitter and the clock returned
    fOut          \* the message returned

courierVars == <<cPc, cIn, cPartner, cUrl, cRegex10>>
retryVars == <<rMode, rPhone, maxRetries, wPc, attempt, lastError, rHistory,
               rLastEnv, rWaits, wResult, wTerminal, httpPosts>>
trackVars == <<bills, req, issued, updates, sentLog>>
formatVars == <<fPc, fIn, fEnv, fOut>>
vars == <<courierVars, retryVars, trackVars, formatVars>>
notCourier == <<retryVars, trackVars, formatVars>>
notRetry == <<courierVars, trackVars, formatVars>>
notTrack == <<courierVars, retryVars, formatVars>>
notFormat == <<courierVars, retryVars, trackVars>>

None == "none"

(***************************************************************************)
(* Text helpers                                                            *)
(***************************************************************************)

\* String.prototype.startsWith
StartsWith(s, p) == Len(s) >= Len(p) /\ SubSeq(s, 1, Len(p)) = p

\* every sequence over alphabet A of length 0..n
SeqsUpTo(A, n) == UNION { [1..k -> A] : k \in 0..n }

(***************************************************************************)
(* Courier classification, route.ts 7-37                                   *)
(***************************************************************************)

\* the lookahead excludes "00" instead of "000"
Regex10Not000_Excludes00(t) ==
    /\ StartsWith(t, <<"1", "0">>)
    /\ ~ StartsWith(t, <<"1", "0", "0", "0">>)

\* /^10(?!000)/.test(t): "10" at the start, not followed by "000"
Regex10Not000(t) ==
    /\ StartsWith(t, <<"1", "0">>)
    /\ ~ StartsWith(t, <<"1", "0", "0", "0", "0">>)

\* the "14" test placed after the "S"/"1" catch-all
determineShippingPartner_CatchAllFirst(t) ==
    IF StartsWith(t, <<"C", "T">>) THEN "INDIA POST"
    ELSE IF StartsWith(t, <<"C", "1">>) THEN "DTDC"
    ELSE IF StartsWith(t, <<"5", "8">>) THEN "ST COURIER"
    ELSE IF \/ StartsWith(t, <<"5", "0", "0">>)
            \/ StartsWith(t, <<"1", "0", "0", "0", "0">>)
            \/ Regex10Not000(t) THEN "TRACKON"
    ELSE IF StartsWith(t, <<"S", "M">>) THEN "SINGPOST"
    ELSE IF StartsWith(t, <<"3", "3">>) THEN "ECOM"
    ELSE IF StartsWith(t, <<"S", "R">>) \/ StartsWith(t, <<"E", "P">>) THEN "EKART"
    ELSE IF StartsWith(t, <<"S">>) \/ StartsWith(t, <<"1">>) THEN "SHIP ROCKET"
    ELSE IF StartsWith(t, <<"1", "4">>) THEN "XPRESSBEES"
    ELSE IF StartsWith(t, <<"7">>) THEN "DELHIVERY"
    ELSE IF StartsWith(t, <<"J", "T">>) THEN "J&T"
    ELSE IF StartsWith(t, <<"T", "R", "Z">>) THEN "PROFESSIONAL COURIER"
    ELSE "Unknown"

\* the startsWith("10000") test is left out of the TRACKON rule
determineShippingPartner_No10000(t) ==
    IF StartsWith(t, <<"C", "T">>) THEN "INDIA POST"
    ELSE IF StartsWith(t, <<"C", "1">>) THEN "DTDC"
    ELSE IF StartsWith(t, <<"5", "8">>) THEN "ST COURIER"
    ELSE IF \/ StartsWith(t, <<"5", "0", "0">>)
            \/ Regex10Not000(t) THEN "TRACKON"
    ELSE IF StartsWith(t, <<"S", "M">>) THEN "SINGPOST"
    ELSE IF StartsWith(t, <<"3", "3">>) THEN "ECOM"
    ELSE IF StartsWith(t, <<"S", "R">>) \/ StartsWith(t, <<"E", "P">>) THEN "EKART"
    ELSE IF StartsWith(t, <<"1", "4">>) THEN "XPRESSBEES"
    ELSE IF StartsWith(t, <<"S">>) \/ StartsWith(t, <<"1">>) THEN "SHIP ROCKET"
    ELSE IF StartsWith(t, <<"7">>) THEN "DELHIVERY"
    ELSE IF StartsWith(t, <<"J", "T">>) THEN "J&T"
    ELSE IF StartsWith(t, <<"T", "R", "Z">>) THEN "PROFESSIONAL COURIER"
    ELSE "Unknown"

determineShippingPartner(t) ==
    IF StartsWith(t, <<"C", "T">>) THEN "INDIA POST"
    ELSE IF StartsWith(t, <<"C", "1">>) THEN "DTDC"
    ELSE IF StartsWith(t, <<"5", "8">>) THEN "ST COURIER"
    ELSE IF \/ StartsWith(t, <<"5", "0", "0">>)
            \/ StartsWith(t, <<"1", "0", "0", "0", "0">>)
            \/ Regex10Not000(t) THEN "TRACKON"
    ELSE IF StartsWith(t, <<"S", "M">>) THEN "SINGPOST"
    ELSE IF StartsWith(t, <<"3", "3">>) THEN "ECOM"
    ELSE IF StartsWith(t, <<"S", "R">>) \/ StartsWith(t, <<"E", "P">>) THEN "EKART"
    ELSE IF StartsWith(t, <<"1", "4">>) THEN "XPRESSBEES"
    ELSE IF StartsWith(t, <<"S">>) \/ StartsWith(t, <<"1">>) THEN "SHIP ROCKET"
    ELSE IF StartsWith(t, <<"7">>) THEN "DELHIVERY"
    ELSE IF StartsWith(t, <<"J", "T">>) THEN "J&T"
    ELSE IF StartsWith(t, <<"T", "R", "Z">>) THEN "PROFESSIONAL COURIER"
    ELSE "Unknown"

\* the keys of the urls object literal
UrlKeys ==
    { "INDIA POST", "ST COURIER", "DTDC", "TRACKON", "SHIP ROCKET",
      "DELHIVERY", "ECOM", "EKART", "XPRESSBEES", "PROFESSIONAL COURIER" }

urls(partner) ==
    CASE partner = "INDIA POST" ->
            "https://www.indiapost.gov.in/_layouts/15/dop.portal.tracking/trackconsignment.aspx"
      [] partner = "ST COURIER" -> "https://stcourier.com/track/shipment"
      [] partner = "DTDC" -> "https://www.dtdc.in/track"
      [] partner = "TRACKON" -> "https://trackon.in"
      [] partner = "SHIP ROCKET" -> "https://www.shiprocket.in/shipment-tracking"
      [] partner = "DELHIVERY" -> "https://www.delhivery.com/track/package"
      [] partner = "ECOM" -> "https://ecomexpress.in/tracking"
      [] partner = "EKART" -> "https://ekartlogistics.com/track"
      [] partner = "XPRESSBEES" -> "https://www.xpressbees.com/track"
      [] partner = "PROFESSIONAL COURIER" -> "https://www.tpcindia.com/"

FallbackUrl == "https://vaseegrahveda.com/tracking"

\* urls[partner] || fallback
getTrackingUrl(partner, number) ==
    IF partner \in UrlKeys THEN urls(partner) ELSE FallbackUrl

(***************************************************************************)
(* SpecCourier: one tracking number is classified, then its URL looked up, *)
(* as POST does at route.ts 93-94.                                         *)
(***************************************************************************)

MaxTrackLen == 3
MaxNumLen == 6

CourierAlphabet ==
    { "C", "T", "1", "5", "8", "0", "S", "M", "3", "R", "E", "P", "4", "7",
      "J", "Z", "X" }

TrackingInputs ==
    SeqsUpTo(CourierAlphabet, MaxTrackLen) \cup SeqsUpTo({"0", "1"}, MaxNumLen)

CourierIdle ==
    /\ cPc = "idle"
    /\ cIn = <<>>
    /\ cPartner = None
    /\ cUrl = None
    /\ cRegex10 = FALSE

CourierStart ==
    /\ cPc = "start"
    /\ cIn \in TrackingInputs
    /\ cPartner = None
    /\ cUrl = None
    /\ cRegex10 = FALSE

Classify ==
    /\ cPc = "start"
    /\ cPartner' = determineShippingPartner(cIn)
    /\ cRegex10' = Regex10Not000(cIn)
    /\ cPc' = "classified"
    /\ UNCHANGED <<cIn, cUrl>>
    /\ UNCHANGED notCourier

LookupUrl ==
    /\ cPc = "classified"
    /\ cUrl' = getTrackingUrl(cPartner, cIn)
    /\ cPc' = "done"
    /\ UNCHANGED <<cIn, cPartner, cRegex10>>
    /\ UNCHANGED notCourier

CourierNext == Classify \/ LookupUrl

(***************************************************************************)
(* Delivery Client, msg-whatsapp.ts 22-95                                  *)
(***************************************************************************)

Digits == { "0", "1", "2", "3", "4", "5", "6", "7", "8", "9" }

IsDigit(c) == c \in Digits

\* phone.replace(/[^\d]/g, '')
StripNonDigits(phone) == SelectSeq(phone, IsDigit)

\* formattedPhone.length < 10
MinPhoneDigits == 10

(* What the collaborators do during one call, each consulted only if the   *)
(* call gets to it ("unused" otherwise):                                   *)
(*   token    getValidAccessToken: a token, a falsy value, a thrown Error, *)
(*            a thrown value that is no Error                              *)
(*   address  splitAddressIntoThreeParts: three parts, or it throws        *)
(*   fetch    resolves with res.ok, resolves with !res.ok, or rejects      *)
(*   body     res.json(): an object with message_id, one without, null,    *)
(*            or a rejection (the body is no JSON)                         *)
Env(t, a, f, b) == [token |-> t, address |-> a, fetch |-> f, body |-> b]

Envs ==
    { Env("absent", "unused", "unused", "unused"),
      Env("throwsError", "unused", "unused", "unused"),
      Env("throwsValue", "unused", "unused", "unused"),
      Env("token", "throws", "unused", "unused"),
      Env("token", "parts", "unused", "unused"),
      Env("token", "parts", "rejects", "unused"),
      Env("token", "parts", "notOk", "unused"),
      Env("token", "parts", "ok", "withId"),
      Env("token", "parts", "ok", "withoutId"),
      Env("token", "parts", "ok", "null"),
      Env("token", "parts", "ok", "notJson") }

\* completions of the try block: a returned value, or a thrown one
Raise(isError, message, posts) ==
    [kind |-> "raise", isError |-> isError, message |-> message, posts |-> posts]

Value(messageId, posts) ==
    [kind |-> "value", messageId |-> messageId, posts |-> posts]

\* the request carries the caller's phone unformatted
PostBody_RawPhone(formattedPhone) == [phone |-> rPhone, type |-> "text"]

\* JSON.stringify({ phone: formattedPhone, type: 'text', message })
PostBody(formattedPhone) == [phone |-> formattedPhone, type |-> "text"]

\* lines 71-83, after fetch resolved
AfterFetch(env, posts) ==
    IF env.fetch = "notOk" THEN Raise(TRUE, "WhatsApp API error", posts)
    ELSE IF env.body = "notJson" THEN Raise(TRUE, "invalid json", posts)
    ELSE IF env.body = "null" THEN Raise(TRUE, "cannot read message_id of null", posts)
    ELSE Value(IF env.body = "withId" THEN "message_id" ELSE None, posts)

\* lines 33-83, the try block
TryBlock(phone, env) ==
    IF env.token = "throwsError" THEN Raise(TRUE, "token provider error", <<>>)
    ELSE IF env.token = "throwsValue" THEN Raise(FALSE, "token provider value", <<>>)
    ELSE IF env.token = "absent"
         THEN Raise(TRUE, "No valid access token found for organisation", <<>>)
    ELSE IF env.address = "throws" THEN Raise(TRUE, "address split error", <<>>)
    ELSE LET formattedPhone == StripNonDigits(phone)
         IN  IF Len(formattedPhone) < MinPhoneDigits
             THEN Raise(TRUE, "Invalid phone number format", <<>>)
             ELSE LET posts == <<PostBody(formattedPhone)>>
                  IN  IF env.fetch = "rejects"
                      THEN Raise(TRUE, "fetch failed", posts)
                      ELSE AfterFetch(env, posts)

\* the environments in which a call with this phone consults each
\* collaborator it reaches
EnvsFor(phone) ==
    { e \in Envs :
        (e.token = "token" /\ e.address = "parts") =>
            (e.fetch = "unused" <=> Len(StripNonDigits(phone)) < MinPhoneDigits) }

\* lines 85-94, the catch block: error instanceof Error ? error.message : ...
CatchBlock(c) ==
    [kind |-> "return", success |-> FALSE,
     error |-> IF c.isError THEN c.message ELSE "Unknown error occurred",
     messageId |-> None, posts |-> c.posts]

\* the token is fetched before the try block is entered
sendBillingWhatsApp_TokenOutsideTry(phone, env) ==
    LET c == TryBlock(phone, env)
    IN  IF c.kind = "raise"
        THEN IF env.token \in {"throwsError", "throwsValue"}
             THEN [kind |-> "throw", success |-> FALSE, error |-> c.message,
                   messageId |-> None, posts |-> c.posts]
             ELSE CatchBlock(c)
        ELSE [kind |-> "return", success |-> TRUE, error |-> None,
              messageId |-> c.messageId, posts |-> c.posts]

sendBillingWhatsApp(phone, env) ==
    LET c == TryBlock(phone, env)
    IN  IF c.kind = "raise"
        THEN CatchBlock(c)
        ELSE [kind |-> "return", success |-> TRUE, error |-> None,
              messageId |-> c.messageId, posts |-> c.posts]

(***************************************************************************)
(* Retry Wrapper, msg-whatsapp.ts 98-144                                   *)
(***************************************************************************)

\* maxRetries = 3
DefaultMaxRetries == 3

RECURSIVE Pow2(_)
Pow2(n) == IF n <= 0 THEN 1 ELSE 2 * Pow2(n - 1)

MsPerSecond == 1000

\* the delay counted from a 0-based attempt number
BackoffDelay_ZeroBased(a) == Pow2(a - 1) * MsPerSecond

\* Math.pow(2, attempt) * 1000
BackoffDelay(a) == Pow2(a) * MsPerSecond

\* only the first failure is remembered
NextLastError_KeepFirst(prev, result) ==
    IF prev = None THEN result.error ELSE prev

\* lastError = result.error (line 129), lastError = error (line 138)
NextLastError(prev, result) == result.error

\* the loop goes on after a success
StopsOnSuccess_Never(result) == FALSE

\* if (result.success) return result
StopsOnSuccess(result) == result.success

\* the loop admits one attempt more than maxRetries
LoopContinues_OneMore(a, n) == a <= n + 1

\* for (let attempt = 1; attempt <= maxRetries; attempt++), the test
LoopContinues(a, n) == a <= n

\* new Error(`WhatsApp failed after ${maxRetries} attempts. Last error: ${lastError}`)
TerminalError(n, err) == [attempts |-> n, lastError |-> err]

(***************************************************************************)
(* SpecRetry: a caller invokes sendBillingWhatsApp once ("direct"), or     *)
(* sendBillingWhatsAppWithRetry ("retry").                                 *)
(***************************************************************************)

MaxPhoneDigits == 11
MaxRetriesArg == 4
NegRetries == 1

Nines(n) == [i \in 1..n |-> "9"]

\* the phones of spec 8, and runs of digits with and without punctuation
PhonePlus91 ==
    << "+", "9", "1", " ", "9", "8", "7", "6", "5", "-", "4", "3", "2", "1", "0" >>
Phone12345 == << "1", "2", "3", "4", "5" >>

PhoneInputs ==
    {PhonePlus91, Phone12345}
        \cup { Nines(n) : n \in 0..MaxPhoneDigits }
        \cup { <<"+">> \o Nines(n) \o <<"-", "x">> : n \in 0..MaxPhoneDigits }

RetryPhones == {PhonePlus91, Phone12345}

RetryArgs == (0 - NegRetries)..MaxRetriesArg \cup {DefaultMaxRetries}

RetryIdle ==
    /\ rMode = "idle"
    /\ rPhone = <<>>
    /\ maxRetries = 0
    /\ wPc = "idle"
    /\ attempt = 0
    /\ lastError = None
    /\ rHistory = <<>>
    /\ rLastEnv = None
    /\ rWaits = <<>>
    /\ wResult = None
    /\ wTerminal = None
    /\ httpPosts = <<>>

RetryStart ==
    /\ \/ rMode = "direct" /\ rPhone \in PhoneInputs /\ maxRetries = 0
          /\ wPc = "start" /\ attempt = 0
       \/ rMode = "retry" /\ rPhone \in RetryPhones /\ maxRetries \in RetryArgs
          /\ wPc = "loop" /\ attempt = 1
    /\ lastError = None
    /\ rHistory = <<>>
    /\ rLastEnv = None
    /\ rWaits = <<>>
    /\ wResult = None
    /\ wTerminal = None
    /\ httpPosts = <<>>

\* a caller awaits sendBillingWhatsApp(params)
DirectCall ==
    /\ rMode = "direct"
    /\ wPc = "start"
    /\ \E env \in EnvsFor(rPhone) :
        LET result == sendBillingWhatsApp(rPhone, env)
        IN  /\ rHistory' = Append(rHistory, result)
            /\ rLastEnv' = env
            /\ httpPosts' = httpPosts \o result.posts
            /\ IF result.kind = "throw"
               THEN /\ wPc' = "thrown"
                    /\ wTerminal' = result.error
                    /\ wResult' = wResult
               ELSE /\ wPc' = "returned"
                    /\ wResult' = result
                    /\ wTerminal' = wTerminal
    /\ UNCHANGED <<rMode, rPhone, maxRetries, attempt, lastError, rWaits>>
    /\ UNCHANGED notRetry

\* one pass of the loop body up to the backoff, lines 110-131 and 137-140
Attempt ==
    /\ rMode = "retry"
    /\ wPc = "loop"
    /\ LoopContinues(attempt, maxRetries)
    /\ \E env \in EnvsFor(rPhone) :
        LET result == sendBillingWhatsApp(rPhone, env)
        IN  /\ rHistory' = Append(rHistory, result)
            /\ rLastEnv' = env
            /\ httpPosts' = httpPosts \o result.posts
            /\ IF result.kind = "throw"
               THEN \* catch (error): no backoff, the for statement increments
                    /\ lastError' = NextLastError(lastError, result)
                    /\ attempt' = attempt + 1
                    /\ wPc' = "loop"
                    /\ wResult' = wResult
               ELSE IF StopsOnSuccess(result)
               THEN /\ wPc' = "returned"
                    /\ wResult' = result
                    /\ UNCHANGED <<lastError, attempt>>
               ELSE /\ lastError' = NextLastError(lastError, result)
                    /\ wResult' = wResult
                    /\ IF attempt < maxRetries
                       THEN wPc' = "backoff" /\ attempt' = attempt
                       ELSE wPc' = "loop" /\ attempt' = attempt + 1
    /\ UNCHANGED <<rMode, rPhone, maxRetries, rWaits, wTerminal>>
    /\ UNCHANGED notRetry

\* await new Promise(resolve => setTimeout(resolve, delay)), then attempt++
Backoff ==
    /\ rMode = "retry"
    /\ wPc = "backoff"
    /\ rWaits' = Append(rWaits, [after |-> attempt, ms |-> BackoffDelay(attempt)])
    /\ attempt' = attempt + 1
    /\ wPc' = "loop"
    /\ UNCHANGED <<rMode, rPhone, maxRetries, lastError, rHistory, rLastEnv,
                   wResult, wTerminal, httpPosts>>
    /\ UNCHANGED notRetry

\* the loop condition fails: throw new Error(...), line 143
Exhaust ==
    /\ rMode = "retry"
    /\ wPc = "loop"
    /\ ~ LoopContinues(attempt, maxRetries)
    /\ wTerminal' = TerminalError(maxRetries, lastError)
    /\ wPc' = "thrown"
    /\ UNCHANGED <<rMode, rPhone, maxRetries, attempt, lastError, rHistory,
                   rLastEnv, rWaits, wResult, httpPosts>>
    /\ UNCHANGED notRetry

RetryNext == DirectCall \/ Attempt \/ Backoff \/ Exhaust

(***************************************************************************)
(* Tracking endpoint, route.ts 39-164                                      *)
(***************************************************************************)

DigitValue(c) ==
    CASE c = "0" -> 0 [] c = "1" -> 1 [] c = "2" -> 2 [] c = "3" -> 3
      [] c = "4" -> 4 [] c = "5" -> 5 [] c = "6" -> 6 [] c = "7" -> 7
      [] c = "8" -> 8 [] c = "9" -> 9

\* the length of the longest prefix of s made of digits
RECURSIVE DigitPrefixLen(_)
DigitPrefixLen(s) ==
    IF s # <<>> /\ Head(s) \in Digits THEN 1 + DigitPrefixLen(Tail(s)) ELSE 0

RECURSIVE DigitsValue(_)
DigitsValue(s) ==
    IF s = <<>> THEN 0 ELSE 10 * DigitsValue(SubSeq(s, 1, Len(s) - 1)) + DigitValue(s[Len(s)])

\* NaN, as a number no digit string denotes
NaN == -1

\* a text value that is absent (undefined or null): no text has this element
NoText == << "(absent)" >>

\* parseInt(s): the leading digits as a number, NaN when there are none
parseInt(s) ==
    LET n == DigitPrefixLen(s)
    IN  IF n = 0 THEN NaN ELSE DigitsValue(SubSeq(s, 1, n))

RECURSIVE StripTrailingZeros(_)
StripTrailingZeros(s) ==
    IF s # <<>> /\ s[Len(s)] = "0" THEN StripTrailingZeros(SubSeq(s, 1, Len(s) - 1)) ELSE s

\* parseFloat(s): digits, then optionally "." and digits; the value is
\* num / 10^scale
parseFloat(s) ==
    LET n == DigitPrefixLen(s)
        rest == SubSeq(s, n + 1, Len(s))
        fracAll == IF rest # <<>> /\ Head(rest) = "."
                   THEN SubSeq(Tail(rest), 1, DigitPrefixLen(Tail(rest)))
                   ELSE <<>>
        frac == StripTrailingZeros(fracAll)
    IN  IF n = 0 /\ fracAll = <<>> THEN [kind |-> "NaN", num |-> 0, scale |-> 0]
        ELSE [kind |-> "number", num |-> DigitsValue(SubSeq(s, 1, n) \o frac),
              scale |-> Len(frac)]

\* the weight column when it is null
NullWeight == [kind |-> "null", num |-> 0, scale |-> 0]

\* !x for a value that is absent or a string
Falsy(x) == x = NoText \/ x = <<>>

(* The transactionRecord table.  id is the primary key, companyBillNo the  *)
(* organisation-scoped bill number; phone stands for customer?.phone.      *)
Bill(id, org, no, mode, phone) ==
    [id |-> id, organisationId |-> org, companyBillNo |-> no, billingMode |-> mode,
     phone |-> phone, trackingNumber |-> NoText, weight |-> NullWeight,
     status |-> "processing"]

CustomerPhone == << "9", "8", "7", "6", "5", "4", "3", "2", "1", "0" >>

InitialBills ==
    << Bill(1, 1, 1, "online", CustomerPhone),
       Bill(2, 1, 2, "offline", CustomerPhone),
       Bill(3, 2, 1, "online", NoText) >>

BillIds == DOMAIN InitialBills

\* findFirst resolved with null
NoBill == 0

\* a response body without a bill
NoData == Bill(NoBill, 0, 0, "none", NoText)

\* where: { companyBillNo } alone
findFirst_AnyOrganisation(table, billNo, org) ==
    LET hits == { b \in DOMAIN table : table[b].companyBillNo = billNo }
    IN  IF hits = {} THEN NoBill ELSE CHOOSE b \in hits : \A o \in hits : b <= o

\* prisma.transactionRecord.findFirst({ where: { companyBillNo, organisationId } })
findFirst(table, billNo, org) ==
    LET hits == { b \in DOMAIN table :
                    /\ table[b].companyBillNo = billNo
                    /\ table[b].organisationId = org }
    IN  IF hits = {} THEN NoBill ELSE CHOOSE b \in hits : \A o \in hits : b <= o

\* the guard is missing
IsOffline_Never(bill) == FALSE

\* existingBill.billingMode === 'offline'
IsOffline(bill) == bill.billingMode = "offline"

\* the status is left as it was
UpdateData_KeepsStatus(bill, trackingNumber, weight) ==
    [bill EXCEPT !.trackingNumber = trackingNumber,
                 !.weight = IF Falsy(weight) THEN NullWeight ELSE parseFloat(weight)]

\* a bill that is already shipped moves on to the next status
UpdateData_AdvancesStatus(bill, trackingNumber, weight) ==
    [bill EXCEPT !.trackingNumber = trackingNumber,
                 !.weight = IF Falsy(weight) THEN NullWeight ELSE parseFloat(weight),
                 !.status = IF bill.status = "shipped" THEN "delivered" ELSE "shipped"]

\* a bill that is already shipped is not written again
UpdateData_FirstWins(bill, trackingNumber, weight) ==
    IF bill.status = "shipped" THEN bill
    ELSE [bill EXCEPT !.trackingNumber = trackingNumber,
                      !.weight = IF Falsy(weight) THEN NullWeight
                                 ELSE parseFloat(weight),
                      !.status = "shipped"]

\* data: { trackingNumber, weight: weight ? parseFloat(weight) : null, status: 'shipped' }
UpdateData(bill, trackingNumber, weight) ==
    [bill EXCEPT !.trackingNumber = trackingNumber,
                 !.weight = IF Falsy(weight) THEN NullWeight ELSE parseFloat(weight),
                 !.status = "shipped"]

\* the body is validated before the session is looked at
PostGuards_ValidateFirst(session, billId, trackingNumber) ==
    IF Falsy(billId) \/ Falsy(trackingNumber) THEN 400
    ELSE IF session = NoText THEN 401
    ELSE 0

\* if (!session) 401, line 42; if (!billId || !trackingNumber) 400, line 49;
\* 0 when the handler goes on to the lookup
PostGuards(session, billId, trackingNumber) ==
    IF session = NoText THEN 401
    ELSE IF Falsy(billId) \/ Falsy(trackingNumber) THEN 400
    ELSE 0

\* the notification is attempted whatever the customer is
HasCustomerPhone_Always(updatedBill) == TRUE

\* if (updatedBill.customer?.phone)
HasCustomerPhone(updatedBill) == ~ Falsy(updatedBill.phone)

\* var5 is read back from the stored bill
NotifiedTracking_Stored(r, table) == table[r.existing].trackingNumber

\* var5: trackingNumber, the one of the request body
NotifiedTracking(r, table) == r.trackingNumber

\* NextResponse.json(body, { status })
Response(status, data) == [status |-> status, data |-> data]

\* how the awaited sendOrderStatusWhatsApp call can end: it resolves (the
\* message was delivered or not; the value is discarded) or it rejects
NotifyOutcomes == { "delivered", "notDelivered", "throws" }

\* the response after the notification call, lines 107-118
AfterNotify(outcome, updatedBill) ==
    IF outcome = "throws" THEN Response(500, NoData) ELSE Response(200, updatedBill)

(***************************************************************************)
(* Spec: requests arrive on Slots handler tasks; every await on the        *)
(* storage layer or on the notification is a step of its own, so two       *)
(* requests interleave there.                                              *)
(***************************************************************************)

MaxRequests == 2

\* two handler tasks: at most two requests are in flight at a time
Slots == {1, 2}

SessionInputs == { NoText, <<"1">>, <<"2">> }
BillIdInputs == { NoText, <<"1">>, <<"2">>, <<"1", "x">>, <<"x">> }
TrackingNumberInputs == { NoText, <<"C", "T", "1">>, <<"1", "4", "2">> }
WeightInputs == { NoText, <<"2", ".", "5">> }

IdleReq ==
    [pc |-> "idle", method |-> None, session |-> NoText, billId |-> NoText,
     trackingNumber |-> NoText, weight |-> NoText, existing |-> NoBill,
     reads |-> 0, updated |-> FALSE, updatedBill |-> NoData, notified |-> 0,
     resp |-> Response(0, NoData)]

TrackStart ==
    /\ bills = InitialBills
    /\ req = [s \in Slots |-> IdleReq]
    /\ issued = 0
    /\ updates = <<>>
    /\ sentLog = <<>>

TrackIdle ==
    /\ bills = <<>>
    /\ req = <<>>
    /\ issued = 0
    /\ updates = <<>>
    /\ sentLog = <<>>

Free(s) == req[s].pc \in {"idle", "done"}

\* a request is taken by the first task that is free
Takes(s) == Free(s) /\ \A o \in Slots : Free(o) => s <= o

Done(r, response) == [r EXCEPT !.pc = "done", !.resp = response]

\* POST arrives: session check and body validation, lines 41-51
PostBegin(s) ==
    /\ Takes(s)
    /\ issued < MaxRequests
    /\ issued' = issued + 1
    /\ \E session \in SessionInputs, billId \in BillIdInputs,
          trackingNumber \in TrackingNumberInputs, weight \in WeightInputs :
        LET r == [IdleReq EXCEPT !.method = "POST", !.session = session,
                                 !.billId = billId,
                                 !.trackingNumber = trackingNumber,
                                 !.weight = weight]
            failed == PostGuards(session, billId, trackingNumber)
        IN  req' = [req EXCEPT ![s] =
                IF failed # 0 THEN Done(r, Response(failed, NoData))
                ELSE [r EXCEPT !.pc = "load"]]
    /\ UNCHANGED <<bills, updates, sentLog>>
    /\ UNCHANGED notTrack

\* GET arrives: session check and query validation, lines 124-132
GetBegin(s) ==
    /\ Takes(s)
    /\ issued < MaxRequests
    /\ issued' = issued + 1
    /\ \E session \in SessionInputs, billId \in BillIdInputs :
        LET r == [IdleReq EXCEPT !.method = "GET", !.session = session,
                                 !.billId = billId]
        IN  req' = [req EXCEPT ![s] =
                IF session = NoText THEN Done(r, Response(401, NoData))
                ELSE IF Falsy(billId) THEN Done(r, Response(400, NoData))
                ELSE [r EXCEPT !.pc = "load"]]
    /\ UNCHANGED <<bills, updates, sentLog>>
    /\ UNCHANGED notTrack

\* await findFirst and the tests on its result: lines 53-71 (POST), 134-159 (GET)
Load(s) ==
    /\ req[s].pc = "load"
    /\ LET r == [req[s] EXCEPT !.reads = @ + 1]
           billNo == parseInt(r.billId)
           org == parseInt(r.session)
           found == findFirst(bills, billNo, org)
       IN  \/ /\ billNo = NaN
              \* the storage layer rejects the query
              /\ req' = [req EXCEPT ![s] = Done(r, Response(500, NoData))]
           \/ /\ found = NoBill
              /\ req' = [req EXCEPT ![s] = Done(r, Response(404, NoData))]
           \/ /\ found # NoBill
              /\ req' = [req EXCEPT ![s] =
                    IF r.method = "GET"
                    THEN Done([r EXCEPT !.existing = found], Response(200, bills[found]))
                    ELSE IF IsOffline(bills[found])
                    THEN Done([r EXCEPT !.existing = found], Response(400, NoData))
                    ELSE [r EXCEPT !.existing = found, !.pc = "update"]]
    /\ UNCHANGED <<bills, issued, updates, sentLog>>
    /\ UNCHANGED notTrack

\* await update({ where: { id: existingBill.id }, data }) and the test of
\* updatedBill.customer?.phone, lines 73-88 and 115
Update(s) ==
    /\ req[s].pc = "update"
    /\ LET r == req[s]
           updatedBill == UpdateData(bills[r.existing], r.trackingNumber, r.weight)
           r2 == [r EXCEPT !.updated = TRUE, !.updatedBill = updatedBill]
       IN  /\ bills' = [bills EXCEPT ![r.existing] = updatedBill]
           /\ updates' = Append(updates,
                  [slot |-> s, bill |-> r.existing, org |-> parseInt(r.session),
                   trackingNumberIn |-> r.trackingNumber, weightIn |-> r.weight,
                   trackingNumber |-> updatedBill.trackingNumber,
                   weight |-> updatedBill.weight, status |-> updatedBill.status])
           /\ req' = [req EXCEPT ![s] =
                  IF HasCustomerPhone(updatedBill)
                  THEN [r2 EXCEPT !.pc = "notify"]
                  ELSE Done(r2, Response(200, updatedBill))]
    /\ UNCHANGED <<issued, sentLog>>
    /\ UNCHANGED notTrack

\* the place in the updates log of the latest update made on task s
LastUpdateBy(s, log) ==
    LET mine == { i \in DOMAIN log : log[i].slot = s }
    IN  IF mine = {} THEN 0 ELSE CHOOSE i \in mine : \A j \in mine : j <= i

\* lines 89-119: the variables are derived, sendOrderStatusWhatsApp is
\* awaited, and the handler answers
Notify(s) ==
    /\ req[s].pc = "notify"
    /\ LET r == req[s]
           shippingPartner == determineShippingPartner(r.trackingNumber)
           trackingUrl == getTrackingUrl(shippingPartner, r.trackingNumber)
       IN  /\ sentLog' = Append(sentLog,
                  [slot |-> s, bill |-> r.updatedBill.id,
                   phone |-> r.updatedBill.phone,
                   organisationId |-> parseInt(r.session),
                   update |-> LastUpdateBy(s, updates),
                   var4 |-> shippingPartner, var5 |-> NotifiedTracking(r, bills),
                   var7 |-> trackingUrl])
           /\ \E outcome \in NotifyOutcomes :
                req' = [req EXCEPT ![s] =
                    Done([r EXCEPT !.notified = r.notified + 1],
                         AfterNotify(outcome, r.updatedBill))]
    /\ UNCHANGED <<bills, issued, updates>>
    /\ UNCHANGED notTrack

TrackNext ==
    \E s \in Slots : PostBegin(s) \/ GetBegin(s) \/ Load(s) \/ Update(s) \/ Notify(s)

(***************************************************************************)
(* Message Composer, msg-whatsapp.ts 147-179.  A character outside ASCII   *)
(* is written as its code point.                                           *)
(***************************************************************************)

\* text contains sub
Contains(text, sub) ==
    \E i \in 0..(Len(text) - Len(sub)) : SubSeq(text, i + 1, i + Len(sub)) = sub

DigitChar(d) == CHOOSE c \in Digits : DigitValue(c) = d

RECURSIVE NatText(_)
NatText(n) ==
    IF n < 10 THEN <<DigitChar(n)>> ELSE NatText(n \div 10) \o <<DigitChar(n % 10)>>

\* `${n}` for an integer n
NumberText(n) == IF n < 0 THEN <<"-">> \o NatText(0 - n) ELSE NatText(n)

LowerCase ==
    << "a", "b", "c", "d", "e", "f", "g", "h", "i", "j", "k", "l", "m",
       "n", "o", "p", "q", "r", "s", "t", "u", "v", "w", "x", "y", "z" >>
UpperCase ==
    << "A", "B", "C", "D", "E", "F", "G", "H", "I", "J", "K", "L", "M",
       "N", "O", "P", "Q", "R", "S", "T", "U", "V", "W", "X", "Y", "Z" >>

\* String.prototype.toUpperCase
toUpperCase(s) ==
    [i \in 1..Len(s) |->
        IF \E k \in DOMAIN LowerCase : LowerCase[k] = s[i]
        THEN UpperCase[CHOOSE k \in DOMAIN LowerCase : LowerCase[k] = s[i]]
        ELSE s[i]]

\* shippingMethod when the caller gives none
NoShipping == [given |-> FALSE, name |-> <<>>, type |-> <<>>, cost |-> 0]

\* shippingMethod ? `\n... Shipping: ${name} (${type}) - ...${cost}` : ''
shippingLine(m) ==
    IF ~ m.given THEN <<>>
    ELSE <<"\n", "U+1F69A", " ", "S", "h", "i", "p", "p", "i", "n", "g",
              ":", " ">>
         \o m.name
         \o <<" ", "(">>
         \o m.type
         \o <<")", " ", "-", " ", "U+20B9">>
         \o NumberText(m.cost)

\* the compact message lists the items after the total
CompactMessage_WithItems(p, lines) ==
    <<"U+1F9FE", " ">>
    \o p.companyName
    \o <<" ", "B", "i", "l", "l", " ", "#">>
    \o p.billNo
    \o <<"\n", "U+1F4B0", " ", "T", "o", "t", "a", "l", ":", " ", "U+20B9">>
    \o NumberText(p.amount)
    \o shippingLine(p.shippingMethod)
    \o <<"\n">>
    \o p.products
    \o <<"\n", "U+1F4CD", " ">>
    \o lines[1]
    \o <<"\n", "T", "h", "a", "n", "k", " ", "y", "o", "u", "!", " ",
         "U+1F64F">>

\* case 'compact'
CompactMessage(p, lines) ==
    <<"U+1F9FE", " ">>
    \o p.companyName
    \o <<" ", "B", "i", "l", "l", " ", "#">>
    \o p.billNo
    \o <<"\n", "U+1F4B0", " ", "T", "o", "t", "a", "l", ":", " ", "U+20B9">>
    \o NumberText(p.amount)
    \o shippingLine(p.shippingMethod)
    \o <<"\n", "U+1F4CD", " ">>
    \o lines[1]
    \o <<"\n", "T", "h", "a", "n", "k", " ", "y", "o", "u", "!", " ",
         "U+1F64F">>

\* case 'detailed'
DetailedMessage(p, lines, date) ==
    <<"U+1F9FE", " ", "*", "I", "N", "V", "O", "I", "C", "E", " ", "F",
         "R", "O", "M", " ">>
    \o toUpperCase(p.companyName)
    \o <<"*", "\n", "\n", "U+1F4CB", " ", "*", "B", "i", "l", "l", " ",
         "N", "u", "m", "b", "e", "r", ":", "*", " ">>
    \o p.billNo
    \o <<"\n", "U+1F4C5", " ", "*", "D", "a", "t", "e", ":", "*", " ">>
    \o date
    \o <<"\n", "\n", "U+1F6D2", " ", "*", "I", "T", "E", "M", "S", " ",
         "P", "U", "R", "C", "H", "A", "S", "E", "D", ":", "*", "\n">>
    \o p.products
    \o <<"\n", "\n", "U+1F4B0", " ", "*", "T", "O", "T", "A", "L", " ",
         "A", "M", "O", "U", "N", "T", ":", "*", " ", "U+20B9">>
    \o NumberText(p.amount)
    \o shippingLine(p.shippingMethod)
    \o <<"\n", "\n", "U+1F3E0", " ", "*", "D", "E", "L", "I", "V", "E",
         "R", "Y", " ", "A", "D", "D", "R", "E", "S", "S", ":", "*", "\n">>
    \o lines[1]
    \o <<"\n">>
    \o lines[2]
    \o <<"\n">>
    \o lines[3]
    \o <<"\n", "\n", "U+2705", " ", "*", "O", "r", "d", "e", "r", " ", "S",
         "t", "a", "t", "u", "s", ":", "*", " ", "C", "o", "n", "f", "i",
         "r", "m", "e", "d", "\n", "U+1F64F", " ", "T", "h", "a", "n", "k",
         " ", "y", "o", "u", " ", "f", "o", "r", " ", "c", "h", "o", "o",
         "s", "i", "n", "g", " ">>
    \o p.companyName
    \o <<"!">>

\* default:
DefaultMessage(p, lines) ==
    <<"U+1F9FE", " ", "*">>
    \o p.companyName
    \o <<" ", "B", "i", "l", "l", " ", "#">>
    \o p.billNo
    \o <<"*", "\n", "\n", "U+1F6D2", " ", "*", "I", "t", "e", "m", "s",
         ":", "*", "\n">>
    \o p.products
    \o <<"\n", "\n", "U+1F4B0", " ", "*", "T", "o", "t", "a", "l", ":",
         "*", " ", "U+20B9">>
    \o NumberText(p.amount)
    \o shippingLine(p.shippingMethod)
    \o <<"\n", "\n", "U+1F3E0", " ", "*", "D", "e", "l", "i", "v", "e",
         "r", "y", " ", "A", "d", "d", "r", "e", "s", "s", ":", "*", "\n">>
    \o lines[1]
    \o <<"\n">>
    \o lines[2]
    \o <<"\n">>
    \o lines[3]
    \o <<"\n", "\n", "U+1F64F", " ", "T", "h", "a", "n", "k", " ", "y",
         "o", "u", " ", "f", "o", "r", " ", "s", "h", "o", "p", "p", "i",
         "n", "g", " ", "w", "i", "t", "h", " ", "u", "s", "!">>

\* template = 'default' in the parameter list: an omitted tag
DefaultedTemplate(template) == IF template = None THEN "default" ELSE template

\* formatBillingMessage, given what splitAddressIntoThreeParts returns for
\* the address and what new Date().toLocaleDateString() returns
formatBillingMessage(p, lines, date) ==
    LET template == DefaultedTemplate(p.template)
    IN  IF template = "compact" THEN CompactMessage(p, lines)
        ELSE IF template = "detailed" THEN DetailedMessage(p, lines, date)
        ELSE DefaultMessage(p, lines)

(***************************************************************************)
(* SpecFormat: a caller invokes formatBillingMessage once.                 *)
(***************************************************************************)

CompanyNameInputs == { <<"A", "c", "m", "e">>, <<"Z", "e", "d", " ", "C", "o">> }
BillNoInputs == { <<"7">>, <<"A", "-", "4", "2">> }
ProductInputs == { <<>>, <<"P", "e", "n", " ", "x", "2">>, <<"B", "i", "l", "l">> }
AmountInputs == { 0, 1500, 0 - 20 }
ShippingInputs ==
    { NoShipping,
      [given |-> TRUE, name |-> <<"D", "T", "D", "C">>, type |-> <<"a", "i", "r">>, cost |-> 50] }
TemplateInputs == { None, "default", "compact", "detailed", "fancy", "Compact" }

\* splitAddressIntoThreeParts(address): three parts, any of them empty
AddressSplits ==
    { << <<"1", "2", " ", "H", "i", "l", "l">>, <<"O", "o", "t", "y">>, <<"6", "4", "3", "0", "0", "1">> >>,
      << <<"O", "o", "t", "y">>, <<>>, <<>> >>,
      << <<>>, <<>>, <<>> >> }

\* new Date().toLocaleDateString()
DateTexts == { <<"5", "/", "1", "1", "/", "2", "0", "2", "6">>, <<"1", "1", "/", "5", "/", "2", "0", "2", "6">> }

FormatInputs ==
    [companyName : CompanyNameInputs, billNo : BillNoInputs,
     products : ProductInputs, amount : AmountInputs,
     shippingMethod : ShippingInputs, template : TemplateInputs]

FormatIdle ==
    /\ fPc = "idle"
    /\ fIn = None
    /\ fEnv = None
    /\ fOut = <<>>

FormatStart ==
    /\ fPc = "start"
    /\ fIn \in FormatInputs
    /\ fEnv = None
    /\ fOut = <<>>

\* the caller awaits nothing: the message is composed in one step
Compose ==
    /\ fPc = "start"
    /\ \E lines \in AddressSplits, date \in DateTexts :
        /\ fEnv' = [lines |-> lines, date |-> date]
        /\ fOut' = formatBillingMessage(fIn, lines, date)
    /\ fPc' = "composed"
    /\ UNCHANGED fIn
    /\ UNCHANGED notFormat

FormatNext == Compose

(***************************************************************************)
(* Specifications                                                          *)
(***************************************************************************)

Init == TrackStart /\ CourierIdle /\ RetryIdle /\ FormatIdle

Next == TrackNext

Spec == Init /\ [][Next]_vars

RetryInit == RetryStart /\ CourierIdle /\ TrackIdle /\ FormatIdle

SpecRetry == RetryInit /\ [][RetryNext]_vars

CourierInit == CourierStart /\ RetryIdle /\ TrackIdle /\ FormatIdle

SpecCourier == CourierInit /\ [][CourierNext]_vars

FormatInit == FormatStart /\ CourierIdle /\ RetryIdle /\ TrackIdle

SpecFormat == FormatInit /\ [][FormatNext]_vars


(***************************************************************************)
(* Claims about the courier classification                                 *)
(***************************************************************************)

\* the rule table in its stated order: CT, C1, 58, TRACKON numeric rule,
\* SM, 33, SR/EP, 14, S/1 catch-all, 7, JT, TRZ.  The numeric rule is given
\* by the prefixes it accepts, "500" and "10".
C9_Labels ==
    << "INDIA POST", "DTDC", "ST COURIER", "TRACKON", "SINGPOST", "ECOM",
       "EKART", "XPRESSBEES", "SHIP ROCKET", "DELHIVERY", "J&T",
       "PROFESSIONAL COURIER" >>

C9_Prefixes ==
    << {<<"C", "T">>}, {<<"C", "1">>}, {<<"5", "8">>},
       {<<"5", "0", "0">>, <<"1", "0">>},
       {<<"S", "M">>}, {<<"3", "3">>}, {<<"S", "R">>, <<"E", "P">>},
       {<<"1", "4">>}, {<<"S">>, <<"1">>}, {<<"7">>}, {<<"J", "T">>},
       {<<"T", "R", "Z">>} >>

C9_Matches(i, t) == \E p \in C9_Prefixes[i] : StartsWith(t, p)

C9_FirstMatch(t) ==
    LET hits == { i \in 1..Len(C9_Prefixes) : C9_Matches(i, t) }
    IN  IF hits = {} THEN "Unknown"
        ELSE C9_Labels[CHOOSE i \in hits : \A j \in hits : i <= j]

\* C9: determineShippingPartner returns the label of the first rule, in the
\* order CT, C1, 58, TRACKON numeric rule, SM, 33, SR/EP, 14, S/1, 7, JT,
\* TRZ, whose prefix the number matches, and "Unknown" when none does; in
\* particular CT is INDIA POST, C1 DTDC, JT J&T, TRZ PROFESSIONAL COURIER,
\* SM SINGPOST, SR and EP EKART, and 14 XPRESSBEES rather than SHIP ROCKET.
C9_FirstRuleWins ==
    cPc # "start" =>
        /\ cPartner = C9_FirstMatch(cIn)
        /\ (StartsWith(cIn, <<"C", "T">>) => cPartner = "INDIA POST")
        /\ (StartsWith(cIn, <<"C", "1">>) => cPartner = "DTDC")
        /\ (StartsWith(cIn, <<"J", "T">>) => cPartner = "J&T")
        /\ (StartsWith(cIn, <<"T", "R", "Z">>) => cPartner = "PROFESSIONAL COURIER")
        /\ (StartsWith(cIn, <<"S", "M">>) => cPartner = "SINGPOST")
        /\ (StartsWith(cIn, <<"S", "R">>) => cPartner = "EKART")
        /\ (StartsWith(cIn, <<"E", "P">>) => cPartner = "EKART")
        /\ (StartsWith(cIn, <<"1", "4">>) => cPartner = "XPRESSBEES")

\* a number under both the "14" rule and the "1" catch-all has been classified
C9_Witness ==
    /\ cPc = "classified"
    /\ cIn = <<"1", "4", "S">>
    /\ cPartner = "XPRESSBEES"

C19_Max(a, b) == IF a >= b THEN a ELSE b

\* C19: for every maxRetries, 0 and negative ones included, the wrapper
\* invokes the client at most max(maxRetries, 0) times; while it has not
\* ended it can always take a step; it ends either returned, with a result
\* whose success flag is true and nothing thrown, or thrown, with the
\* terminal failure and nothing returned.
C19_ReturnsSuccessOrThrows ==
    rMode = "retry" =>
        /\ Len(rHistory) <= C19_Max(maxRetries, 0)
        /\ attempt <= C19_Max(maxRetries, 0) + 1
        /\ wPc \in {"loop", "backoff", "returned", "thrown"}
        /\ wPc \in {"loop", "backoff"} => ENABLED RetryNext
        /\ wPc \in {"loop", "backoff"} => (wResult = None /\ wTerminal = None)
        /\ wPc = "returned" =>
               /\ wTerminal = None
               /\ wResult.kind = "return"
               /\ wResult.success = TRUE
        /\ wPc = "thrown" =>
               /\ wResult = None
               /\ wTerminal = TerminalError(maxRetries, lastError)

\* a negative maxRetries: the wrapper has thrown without invoking the client
C19_Witness ==
    /\ rMode = "retry"
    /\ maxRetries < 0
    /\ wPc = "thrown"
    /\ rHistory = <<>>
    /\ wTerminal = TerminalError(maxRetries, None)

\* "10" at the start and the three characters after it are not "000"
C11_TenNotTripleZero(t) ==
    /\ Len(t) >= 2
    /\ t[1] = "1"
    /\ t[2] = "0"
    /\ ~ (Len(t) >= 5 /\ t[3] = "0" /\ t[4] = "0" /\ t[5] = "0")

\* C11: the "10" rule of determineShippingPartner matches a number exactly
\* when it begins with "10" and the three characters after "10" are not
\* "000"; a number it matches is TRACKON; it matches "10", "100" and
\* "10001" and does not match "10000" and "100001".
C11_TenRuleBoundary ==
    cPc # "start" =>
        /\ cRegex10 <=> C11_TenNotTripleZero(cIn)
        /\ cRegex10 => cPartner = "TRACKON"
        /\ cIn \in { <<"1", "0">>, <<"1", "0", "0">>, <<"1", "0", "0", "0", "1">> }
                => cRegex10
        /\ cIn \in { <<"1", "0", "0", "0", "0">>, <<"1", "0", "0", "0", "0", "1">> }
                => ~ cRegex10

\* "10001" has been classified by the "10" rule
C11_Witness ==
    /\ cPc = "classified"
    /\ cIn = <<"1", "0", "0", "0", "1">>
    /\ cRegex10
    /\ cPartner = "TRACKON"

\* C20: every number that begins with "10" is classified TRACKON, whether
\* or not the "10" rule's exclusion applies to it, and none is SHIP ROCKET.
C20_TenIsAlwaysTrackon ==
    (cPc # "start" /\ StartsWith(cIn, <<"1", "0">>)) =>
        /\ cPartner = "TRACKON"
        /\ cPartner # "SHIP ROCKET"

\* "100001", which the "10" rule excludes, has been classified TRACKON
C20_Witness ==
    /\ cPc = "classified"
    /\ cIn = <<"1", "0", "0", "0", "0", "1">>
    /\ ~ cRegex10
    /\ cPartner = "TRACKON"

\* C10: every courier label determineShippingPartner returns, other than
\* "Unknown", is mapped by getTrackingUrl to an entry of the URL table and
\* not to the generic fallback URL.
C10_EveryCourierHasOwnUrl ==
    (cPc = "done" /\ cPartner # "Unknown") => cUrl # FallbackUrl

(***************************************************************************)
(* Claims about the Delivery Client and the Retry Wrapper                  *)
(***************************************************************************)

Last(h) == h[Len(h)]

AllFailed(h) == \A j \in 1..Len(h) : ~ h[j].success

\* C4: if the first successful attempt is attempt k, 1 <= k <= maxRetries,
\* exactly k invocations occur, none follows the success, and the wrapper
\* returns that success result.
C4_FirstSuccessStops ==
    rMode = "retry" =>
        \A k \in 1..Len(rHistory) :
            rHistory[k].success =>
                /\ k = Len(rHistory)
                /\ k <= maxRetries
                /\ wPc = "returned"
                /\ wResult = rHistory[k]

\* fail, fail, succeed: three invocations and the success value
C4_Witness ==
    /\ rMode = "retry"
    /\ wPc = "returned"
    /\ Len(rHistory) = 3
    /\ ~ rHistory[1].success
    /\ ~ rHistory[2].success
    /\ wResult.success
    /\ wResult.messageId = "message_id"

\* C5: if every attempt fails (maxRetries >= 1 attempts), exactly maxRetries
\* invocations occur and then the terminal failure is raised, carrying the
\* count maxRetries and the error of the maxRetries-th attempt.
C5_ExhaustionRaises ==
    (rMode = "retry" /\ maxRetries >= 1) =>
        /\ wPc = "thrown" =>
            /\ Len(rHistory) = maxRetries
            /\ AllFailed(rHistory)
            /\ wTerminal.attempts = maxRetries
            /\ wTerminal.lastError = rHistory[maxRetries].error
        /\ (Len(rHistory) = maxRetries /\ AllFailed(rHistory)) =>
            /\ wPc \in {"loop", "thrown"}
            /\ wPc = "loop" => (attempt > maxRetries /\ ENABLED Exhaust)

\* three failures for different reasons, reported with the third one's error
C5_Witness ==
    /\ rMode = "retry"
    /\ wPc = "thrown"
    /\ maxRetries = 3
    /\ rHistory[1].error = "No valid access token found for organisation"
    /\ rHistory[2].error = "fetch failed"
    /\ rHistory[3].error = "WhatsApp API error"
    /\ wTerminal.lastError = "WhatsApp API error"

\* what C6 says of every cause of failure: a returned structured failure
C6_FailuresAreReturned ==
    /\ \A j \in 1..Len(rHistory) :
        /\ rHistory[j].kind = "return"
        /\ ~ rHistory[j].success => rHistory[j].error # None
    /\ wPc # "thrown" \/ rMode = "retry"
    /\ Len(rHistory) > 0 =>
        /\ rLastEnv.token # "token" => ~ Last(rHistory).success
        /\ Cardinality({ i \in DOMAIN rPhone : rPhone[i] \in Digits }) < 10
                => ~ Last(rHistory).success
        /\ rLastEnv.fetch \in {"rejects", "notOk"} => ~ Last(rHistory).success

\* C6 as stated: sendBillingWhatsApp never throws; token absence, a token
\* provider exception, phone validation failure, a thrown fetch error and a
\* non-success HTTP status each give a returned structured failure, and a
\* successful HTTP status gives success = true.
C6_OkStatusIsSuccess ==
    /\ C6_FailuresAreReturned
    /\ Len(rHistory) > 0 =>
        (rLastEnv.fetch = "ok" => Last(rHistory).success)

\* C6, amended: as above, but a successful HTTP status gives success = true
\* only when the response body parses as JSON other than null; with any
\* other body the call also ends with a returned structured failure.
C6_NeverThrows ==
    /\ C6_FailuresAreReturned
    /\ Len(rHistory) > 0 =>
        /\ (rLastEnv.fetch = "ok" /\ rLastEnv.body \in {"withId", "withoutId"})
                => Last(rHistory).success
        /\ Last(rHistory).success => rLastEnv.fetch = "ok"
        /\ (rLastEnv.fetch = "ok" /\ rLastEnv.body \in {"null", "notJson"})
                => (~ Last(rHistory).success /\ Last(rHistory).kind = "return")

\* the token provider threw and the caller got a failure result
C6_Witness ==
    /\ rMode = "direct"
    /\ wPc = "returned"
    /\ rLastEnv.token = "throwsError"
    /\ wResult.success = FALSE
    /\ wResult.error = "token provider error"

RECURSIVE C7_DigitsOf(_)
C7_DigitsOf(s) ==
    IF s = <<>> THEN <<>>
    ELSE IF Head(s) \in Digits THEN <<Head(s)>> \o C7_DigitsOf(Tail(s))
    ELSE C7_DigitsOf(Tail(s))

\* C7: the provider POST is issued only if a token was obtained and the
\* phone has at least 10 digits after stripping every non-digit; a phone
\* with fewer digits ("12345") gives a structured failure and no POST; an
\* accepted phone is sent digits-only ("+91 98765-43210" as "919876543210").
C7_PostOnlyValidPhone ==
    /\ \A j \in 1..Len(rHistory) :
        /\ Len(rHistory[j].posts) <= 1
        /\ rHistory[j].posts # <<>> =>
            /\ Len(C7_DigitsOf(rPhone)) >= 10
            /\ rHistory[j].posts[1].phone = C7_DigitsOf(rPhone)
    /\ (Len(rHistory) > 0 /\ Last(rHistory).posts # <<>>) => rLastEnv.token = "token"
    /\ Len(C7_DigitsOf(rPhone)) < 10 =>
        /\ httpPosts = <<>>
        /\ \A j \in 1..Len(rHistory) :
            rHistory[j].kind = "return" /\ ~ rHistory[j].success
    /\ (rPhone = PhonePlus91 /\ httpPosts # <<>>) =>
        httpPosts[1].phone =
            << "9", "1", "9", "8", "7", "6", "5", "4", "3", "2", "1", "0" >>
    /\ rPhone = Phone12345 => httpPosts = <<>>

\* "+91 98765-43210" has been POSTed
C7_Witness ==
    /\ rMode = "direct"
    /\ rPhone = PhonePlus91
    /\ wPc = "returned"
    /\ Len(httpPosts) = 1
    /\ wResult.success

\* C8: every attempt that is followed by another attempt is followed first
\* by a wait of 2^attempt seconds (2 s after attempt 1, 4 s after attempt
\* 2, 8 s after attempt 3).
C8_BackoffBetweenAttempts ==
    rMode = "retry" =>
        /\ \A k \in 1..(Len(rHistory) - 1) :
            /\ k <= Len(rWaits)
            /\ rWaits[k] = [after |-> k, ms |-> (2 ^ k) * 1000]
        /\ Len(rWaits) <= Len(rHistory)
        /\ Len(rWaits) >= 1 => rWaits[1].ms = 2000
        /\ Len(rWaits) >= 2 => rWaits[2].ms = 4000
        /\ Len(rWaits) >= 3 => rWaits[3].ms = 8000

\* a fourth attempt has started after waits of 2 s, 4 s and 8 s
C8_Witness ==
    /\ rMode = "retry"
    /\ Len(rHistory) = 4
    /\ Len(rWaits) = 3
    /\ rWaits[3].ms = 8000

(***************************************************************************)
(* Claims about the tracking endpoint                                      *)
(***************************************************************************)

\* the request got past the session check and the validation of its input
PassedValidation(r) ==
    /\ r.pc # "idle"
    /\ r.session # NoText
    /\ ~ Falsy(r.billId)
    /\ r.method = "POST" => ~ Falsy(r.trackingNumber)

\* the bills carrying the request's bill number in the caller's organisation
BillsNamedBy(r) ==
    LET billNo == parseInt(r.billId)
        org == parseInt(r.session)
    IN  { b \in BillIds :
            /\ bills[b].companyBillNo = billNo
            /\ bills[b].organisationId = org }

\* C1: a POST that passes authorization, validation, load and the offline
\* guard completes the bill update and is answered 200 with the updated
\* bill, whatever the notification call does.
C1_NotificationFaultStill200 ==
    \A s \in Slots :
        (req[s].method = "POST" /\ req[s].pc = "done" /\ req[s].updated) =>
            /\ req[s].resp.status = 200
            /\ req[s].resp.data = req[s].updatedBill

\* C2: a POST for a bill whose billing mode is "offline" is answered 400,
\* leaves the bill record as it was and sends no notification.
C2_OfflineRejected ==
    /\ \A b \in BillIds :
        bills[b].billingMode = "offline" => bills[b] = InitialBills[b]
    /\ \A i \in DOMAIN updates : bills[updates[i].bill].billingMode # "offline"
    /\ \A i \in DOMAIN sentLog : bills[sentLog[i].bill].billingMode # "offline"
    /\ \A s \in Slots :
        (/\ req[s].method = "POST"
         /\ req[s].pc = "done"
         /\ PassedValidation(req[s])
         /\ \E b \in BillsNamedBy(req[s]) : bills[b].billingMode = "offline") =>
            /\ req[s].resp.status = 400
            /\ ~ req[s].updated
            /\ req[s].notified = 0

\* organisation 1 submitted a tracking number for its offline bill 2
C2_Witness ==
    \E s \in Slots :
        /\ req[s].method = "POST"
        /\ req[s].pc = "done"
        /\ req[s].session = <<"1">>
        /\ req[s].billId = <<"2">>
        /\ req[s].trackingNumber = <<"C", "T", "1">>
        /\ req[s].existing = 2
        /\ req[s].resp.status = 400

\* C3: POST and GET find a bill only when its bill number and its
\* organisation are the request's bill id and the session's organisation; a
\* bill number that exists only under another organisation is answered 404;
\* no request modifies or returns a bill of another organisation.
C3_OrganisationScoped ==
    /\ \A s \in Slots :
        LET r == req[s]
        IN  /\ r.existing # NoBill => r.existing \in BillsNamedBy(r)
            /\ (r.pc = "done" /\ r.resp.status = 200) =>
                /\ r.resp.data.organisationId = parseInt(r.session)
                /\ r.resp.data.companyBillNo = parseInt(r.billId)
            /\ (/\ r.pc = "done"
                /\ PassedValidation(r)
                /\ parseInt(r.billId) # NaN
                /\ BillsNamedBy(r) = {}) => r.resp.status = 404
            /\ r.updated => r.updatedBill.organisationId = parseInt(r.session)
    /\ \A i \in DOMAIN updates : bills[updates[i].bill].organisationId = updates[i].org
    /\ \A i \in DOMAIN sentLog :
        bills[sentLog[i].bill].organisationId = sentLog[i].organisationId
    /\ \A b \in BillIds :
        bills[b] # InitialBills[b] => \E i \in DOMAIN updates : updates[i].bill = b

\* organisation 2 asked for bill number 2, which only organisation 1 has
C3_Witness ==
    \E s \in Slots :
        /\ req[s].pc = "done"
        /\ req[s].session = <<"2">>
        /\ req[s].billId = <<"2">>
        /\ \E b \in BillIds : bills[b].companyBillNo = 2 /\ bills[b].organisationId = 1
        /\ req[s].resp.status = 404

\* C12: at every step a bill that is shipped stays shipped; the step in
\* which a POST performs its update leaves the bill shipped, with the
\* non-empty tracking number that POST submitted; a POST answered 200
\* returns the bill shipped with the tracking number it submitted.
C12_ShippedIsForward ==
    [][ /\ \A b \in DOMAIN bills :
            bills[b].status = "shipped" => bills'[b].status = "shipped"
        /\ \A s \in Slots :
            (req[s].pc = "update" /\ req'[s].pc # "update") =>
                /\ bills'[req[s].existing].status = "shipped"
                /\ bills'[req[s].existing].trackingNumber = req[s].trackingNumber
                /\ ~ Falsy(bills'[req[s].existing].trackingNumber)
        /\ \A s \in Slots :
            (/\ req'[s].method = "POST"
             /\ req'[s].pc = "done"
             /\ req'[s].resp.status = 200) =>
                /\ req'[s].updated
                /\ req'[s].resp.data.status = "shipped"
                /\ req'[s].resp.data.trackingNumber = req'[s].trackingNumber
                /\ ~ Falsy(req'[s].trackingNumber)
      ]_vars

\* a POST was accepted and its bill is shipped with its tracking number
C12_Witness ==
    \E s \in Slots :
        /\ req[s].method = "POST"
        /\ req[s].pc = "done"
        /\ req[s].resp.status = 200
        /\ req[s].updated
        /\ bills[req[s].existing].status = "shipped"
        /\ bills[req[s].existing].trackingNumber = req[s].trackingNumber

\* C13: when two updates in a row are made on the same bill with the same
\* tracking number and weight, the second leaves the bill's tracking
\* number, weight and status as the first left them.
C13_SameRequestTwice ==
    \A i \in DOMAIN updates :
        (/\ i > 1
         /\ updates[i].bill = updates[i - 1].bill
         /\ updates[i].trackingNumberIn = updates[i - 1].trackingNumberIn
         /\ updates[i].weightIn = updates[i - 1].weightIn) =>
            /\ updates[i].trackingNumber = updates[i - 1].trackingNumber
            /\ updates[i].weight = updates[i - 1].weight
            /\ updates[i].status = updates[i - 1].status
            /\ i = Len(updates) =>
                /\ bills[updates[i].bill].trackingNumber = updates[i - 1].trackingNumber
                /\ bills[updates[i].bill].weight = updates[i - 1].weight
                /\ bills[updates[i].bill].status = updates[i - 1].status

\* the same tracking number and weight were written twice on one bill
C13_Witness ==
    /\ Len(updates) = 2
    /\ updates[1].bill = updates[2].bill
    /\ updates[1].trackingNumberIn = updates[2].trackingNumberIn
    /\ updates[1].weightIn = updates[2].weightIn
    /\ ~ Falsy(updates[2].weightIn)
    /\ bills[updates[2].bill].weight = updates[1].weight
    /\ bills[updates[2].bill].status = "shipped"

\* the place in the updates log of the latest update of bill b
C14_LastOn(b) ==
    LET on == { i \in DOMAIN updates : updates[i].bill = b }
    IN  IF on = {} THEN 0 ELSE CHOOSE i \in on : \A j \in on : j <= i

\* both tasks hold a POST that has updated the same bill
C14_BothUpdated ==
    /\ \A s \in Slots : req[s].method = "POST" /\ req[s].updated
    /\ \A s, o \in Slots : req[s].existing = req[o].existing

\* C14: a POST that found an online bill performs its update, whatever the
\* other request is doing; when two POSTs have updated the same bill,
\* each has its own write in the log; the stored tracking number, weight
\* and status of a bill are those of the latest write on it, tracking
\* number and weight both from that one request.
C14_LastWriteWins ==
    /\ \A s \in Slots :
            (/\ req[s].method = "POST"
             /\ req[s].pc \in {"notify", "done"}
             /\ req[s].existing # NoBill
             /\ ~ IsOffline(bills[req[s].existing])) => req[s].updated
    /\ C14_BothUpdated =>
            \A s \in Slots :
                LET i == LastUpdateBy(s, updates)
                IN  /\ i # 0
                    /\ updates[i].bill = req[s].existing
                    /\ updates[i].trackingNumberIn = req[s].trackingNumber
                    /\ updates[i].weightIn = req[s].weight
    /\ \A b \in DOMAIN bills :
            LET last == C14_LastOn(b)
                u == updates[last]
            IN  last # 0 =>
                    /\ bills[b].trackingNumber = u.trackingNumberIn
                    /\ bills[b].weight = IF Falsy(u.weightIn) THEN NullWeight
                                         ELSE parseFloat(u.weightIn)
                    /\ bills[b].status = "shipped"

\* two POSTs with different tracking numbers and weights have both
\* finished on the same bill; the one that arrived first wrote last
C14_Witness ==
    /\ C14_BothUpdated
    /\ \A s \in Slots : req[s].pc = "done"
    /\ req[1].trackingNumber # req[2].trackingNumber
    /\ req[1].weight # req[2].weight
    /\ Last(updates).slot = 1
    /\ LastUpdateBy(2, updates) = Len(updates) - 1
    /\ bills[req[1].existing].trackingNumber = req[1].trackingNumber

\* C16: a finished POST without a session was answered 401, whatever its
\* body, without a storage read; one with a session and no billId or no
\* trackingNumber was answered 400 without a storage read; one whose bill
\* number names no bill of the organisation was answered 404 after one
\* read; one that names an offline bill was answered 400 after one read;
\* a POST answered 401, 400 or 404 made no update and no notification.
C16_GuardOrder ==
    \A s \in Slots :
        LET r == req[s]
        IN  (r.method = "POST" /\ r.pc = "done") =>
                /\ r.session = NoText =>
                        r.resp.status = 401 /\ r.reads = 0
                /\ (r.session # NoText /\ (Falsy(r.billId) \/ Falsy(r.trackingNumber))) =>
                        r.resp.status = 400 /\ r.reads = 0
                /\ (PassedValidation(r) /\ parseInt(r.billId) # NaN
                        /\ BillsNamedBy(r) = {}) =>
                        r.resp.status = 404 /\ r.reads = 1
                /\ (PassedValidation(r)
                        /\ \E b \in BillsNamedBy(r) : IsOffline(bills[b])) =>
                        r.resp.status = 400 /\ r.reads = 1
                /\ r.resp.status \in {401, 400, 404} =>
                        /\ ~ r.updated
                        /\ r.updatedBill = NoData
                        /\ r.notified = 0
                        /\ r.resp.data = NoData

\* a POST with no session and no billId was answered 401
C16_Witness ==
    \E s \in Slots :
        /\ req[s].method = "POST"
        /\ req[s].pc = "done"
        /\ req[s].session = NoText
        /\ req[s].billId = NoText
        /\ req[s].resp.status = 401
        /\ req[s].reads = 0

\* the place in the notification log of the latest one sent on task s
C17_LastSentBy(s) ==
    LET mine == { i \in DOMAIN sentLog : sentLog[i].slot = s }
    IN  IF mine = {} THEN 0 ELSE CHOOSE i \in mine : \A j \in mine : j <= i

\* C17: a POST notifies at most once and only after its update; once it
\* has finished after an update, it has notified exactly when the updated
\* bill has a customer phone; with no phone it is answered 200 with the
\* updated bill; the notification carries the tracking number of the
\* request, the courier and tracking URL derived from it, and the phone
\* of the updated bill.
C17_NotifyOncePerUpdate ==
    /\ \A s \in Slots :
        LET r == req[s]
        IN  /\ r.notified \in {0, 1}
            /\ (r.pc = "notify" \/ r.notified = 1) => r.updated
            /\ (r.pc = "done" /\ r.updated) =>
                    (r.notified = 1 <=> ~ Falsy(r.updatedBill.phone))
            /\ (r.pc = "done" /\ r.updated /\ Falsy(r.updatedBill.phone)) =>
                    r.resp = Response(200, r.updatedBill)
            /\ r.notified = 1 =>
                    LET last == C17_LastSentBy(s)
                        e == sentLog[last]
                    IN  /\ last # 0
                        /\ e.bill = r.existing
                        /\ e.phone = r.updatedBill.phone
                        /\ e.var5 = r.trackingNumber
                        /\ e.var4 = determineShippingPartner(r.trackingNumber)
                        /\ e.var7 = getTrackingUrl(e.var4, r.trackingNumber)
    /\ \A i \in DOMAIN sentLog :
            /\ sentLog[i].update # 0
            /\ ~ Falsy(bills[sentLog[i].bill].phone)
    /\ Len(sentLog) <= Len(updates)

\* one POST updated a bill with a phone and notified, another updated a
\* bill without a phone and was answered 200 with no notification
C17_Witness ==
    \E s, o \in Slots :
        /\ req[s].pc = "done" /\ req[s].updated /\ req[s].notified = 1
        /\ req[o].pc = "done" /\ req[o].updated /\ req[o].notified = 0
        /\ Falsy(req[o].updatedBill.phone)
        /\ req[o].resp.status = 200
        /\ Len(sentLog) = 1

\* two POSTs with different tracking numbers have both updated the same
\* bill, notified its customer and finished
C18_BothNotified ==
    /\ C14_BothUpdated
    /\ \A s \in Slots : req[s].pc = "done" /\ req[s].notified = 1
    /\ req[1].trackingNumber # req[2].trackingNumber

\* C18 as stated: when two POSTs with different tracking numbers for the
\* same bill have both completed, the last notification carries the
\* tracking number stored on the bill.
C18_LastNotificationIsStored ==
    C18_BothNotified =>
        Last(sentLog).var5 = bills[req[1].existing].trackingNumber

\* C18, amended: every notification carries the tracking number written
\* by the update of its own request; the last notification carries the
\* stored tracking number whenever its request is the one whose update
\* was the latest on the bill.
C18_NotificationOfOwnUpdate ==
    /\ \A i \in DOMAIN sentLog :
            /\ sentLog[i].update \in DOMAIN updates
            /\ updates[sentLog[i].update].bill = sentLog[i].bill
            /\ updates[sentLog[i].update].trackingNumberIn = sentLog[i].var5
    /\ sentLog # <<>> =>
            (Last(sentLog).update = C14_LastOn(Last(sentLog).bill) =>
                Last(sentLog).var5 = bills[Last(sentLog).bill].trackingNumber)

\* both requests completed, the one that updated last notified last, and
\* its notification carries the stored tracking number
C18_Witness ==
    /\ C18_BothNotified
    /\ Last(sentLog).update = Len(updates)
    /\ Last(sentLog).var5 = bills[req[1].existing].trackingNumber
    /\ sentLog[Len(sentLog) - 1].var5 # bills[req[1].existing].trackingNumber

(***************************************************************************)
(* Claims about the message composer                                       *)
(***************************************************************************)

\* C15: a tag that is not compact or detailed (default, an omitted tag, any
\* other text) gives the default template's output, which contains the
\* bill number after "Bill #" and the amount after the rupee sign; the
\* compact output contains the bill number and the total and is the same
\* whatever the items text is, so it holds no items text that it would not
\* hold anyway; the detailed output contains the word INVOICE.
C15_Templates ==
    fPc = "composed" =>
        /\ fIn.template \notin {"compact", "detailed"} =>
            /\ fOut = formatBillingMessage([fIn EXCEPT !.template = "default"],
                                           fEnv.lines, fEnv.date)
            /\ Contains(fOut, <<"B", "i", "l", "l", " ", "#">> \o fIn.billNo)
            /\ Contains(fOut, <<"U+20B9">> \o NumberText(fIn.amount))
            /\ Contains(fOut, fIn.products)
        /\ fIn.template = "compact" =>
            /\ Contains(fOut, <<"B", "i", "l", "l", " ", "#">> \o fIn.billNo)
            /\ Contains(fOut, <<"T", "o", "t", "a", "l", ":", " ", "U+20B9">> \o NumberText(fIn.amount))
            /\ \A q \in ProductInputs :
                fOut = formatBillingMessage([fIn EXCEPT !.products = q],
                                            fEnv.lines, fEnv.date)
            /\ (~ Contains(formatBillingMessage([fIn EXCEPT !.products = <<>>],
                                                fEnv.lines, fEnv.date),
                           fIn.products)) => ~ Contains(fOut, fIn.products)
        /\ fIn.template = "detailed" =>
            Contains(fOut, <<"I", "N", "V", "O", "I", "C", "E">>)

\* a compact message was composed for a bill with items, and the items are
\* not in it
C15_Witness ==
    /\ fPc = "composed"
    /\ fIn.template = "compact"
    /\ fIn.products = <<"P", "e", "n", " ", "x", "2">>
    /\ fIn.billNo = <<"A", "-", "4", "2">>
    /\ Contains(fOut, fIn.billNo)
    /\ ~ Contains(fOut, fIn.products)

=============================================================================
